---- MODULE Spec2Model ----
(***************************************************************************)
(* Model of the Disney dining reporter scripts: one Node.js process that   *)
(* parses the YEARLY_SHEET_IDS environment variable, resolves the Google   *)
(* Sheet of the current year, fetches live wait-time data and inserts one  *)
(* row per facility into the sheet.  The repository holds four revisions   *)
(* of the script; the variable `script` says which one the process runs.   *)
(*                                                                         *)
(* JavaScript values that may be undefined/null are modelled as sequences  *)
(* of length at most one: << >> is undefined/null, <<v>> is the value v.   *)
(***************************************************************************)
EXTENDS Integers, Sequences, FiniteSets, TLC

\* ---------------------------------------------------------------- bounds
\* longest liveData array the upstream returns in one response
MaxLiveEntries == 1

\* ------------------------------------------------------------- constants
Scripts == {"part_000", "part_001", "part_002", "disney_reporter"}

\* revisions that issue one HTTP request (fetch) for all facilities
FetchScripts == {"part_000", "part_001"}

\* revisions that call the themeparks library once per facility
LibraryScripts == {"part_002", "disney_reporter"}

FIXED_SHEET_TAB_NAME == "Disney_Dining"

GRAND_FLORIDIAN_FACILITIES ==
    << [name |-> "Grand Floridian Cafe",    id |-> "80010375"],
       [name |-> "Narcoossee's",            id |-> "80010381"],
       [name |-> "Citricos",                id |-> "80010377"],
       [name |-> "Gasparilla Island Grill", id |-> "80010379"],
       [name |-> "Space Mountain (MK)",     id |-> "16975815"] >>

NumFacilities == Len(GRAND_FLORIDIAN_FACILITIES)

RESERVATION_NOTE == "N/A - Check Dining API Manually"

\* the status strings the scripts write themselves
API_ERROR == "API_ERROR"
API_OK    == "API_OK"
LIB_ERROR == "ERROR"
UNKNOWN   == "UNKNOWN"
OPERATING == "OPERATING"

\* -------------------------------------------------------- input domains
\* calendar years the process may be started in (new Date().getFullYear())
Years == {"2025", "2026"}

\* the sheet id an operator would configure for a year
SheetIdOf(y) == IF y = "2025" THEN "ID1" ELSE "ID2"

SheetIds == {SheetIdOf(y) : y \in Years}

\* values of one key of the YEARLY_SHEET_IDS object: key absent, "", an id
EntryValues(y) == { << >>, <<"">>, <<SheetIdOf(y)>> }

YearMappings == { m \in [Years -> UNION {EntryValues(y) : y \in Years}] :
                    \A y \in Years : m[y] \in EntryValues(y) }

\* process.env.YEARLY_SHEET_IDS: unset, not JSON, or a JSON object
EnvValues == { [kind |-> "undefined", map |-> [y \in Years |-> << >>]],
               [kind |-> "malformed", map |-> [y \in Years |-> << >>]] }
             \cup { [kind |-> "json", map |-> m] : m \in YearMappings }

\* entity ids the upstream may report: two tracked ones and a foreign one
UpstreamIds == {"80010375", "16975815", "99999999"}

\* queue.STANDBY of a live entry: its waitTime and status, each optional
StandbyShapes == { [waitTime |-> w, status |-> s] :
                     w \in {<< >>, <<12>>, <<-5>>},
                     s \in {<< >>, <<"DOWN">>} }

\* one item of data.liveData (STANDBY = << >>: no queue.STANDBY)
LiveEntries == { [entityId |-> i, STANDBY |-> q, status |-> s] :
                   i \in UpstreamIds,
                   q \in {<< >>} \cup {<<b>> : b \in StandbyShapes},
                   s \in {<< >>, <<"CLOSED">>} }

RECURSIVE SeqsUpTo(_, _)
SeqsUpTo(S, n) ==
    IF n = 0 THEN { << >> }
    ELSE LET shorter == SeqsUpTo(S, n - 1)
         IN  shorter \cup { Append(s, e) : s \in {t \in shorter : Len(t) = n - 1}, e \in S }

\* what `await fetch(url)` / `response.json()` can produce
\*   kind "transport": fetch rejects;  "non_ok": response.ok is false;
\*   "bad_json": response.json() rejects;  "no_list": data.liveData falsy;
\*   "null_data": the body is JSON null;  "not_array": liveData has no forEach;
\*   "null_item": liveData holds a null item;  "ok": liveData is the list
FailureResponses == { [kind |-> k, liveData |-> << >>] :
                        k \in {"transport", "non_ok", "bad_json", "no_list",
                               "null_data", "not_array", "null_item"} }

Responses == FailureResponses
             \cup { [kind |-> "ok", liveData |-> l] :
                      l \in SeqsUpTo(LiveEntries, MaxLiveEntries) }

\* what one `await WDW.GetDestinationData()` + find gives for a facility:
\*   "throws": the call rejects;  "absent": no facility with that id;
\*   "bare": found without waitTime;  "timed": found with a waitTime record
LibraryOutcomes == {"throws", "absent", "bare", "timed"}

\* ------------------------------------------------------------ JS helpers
TruthyNum(o) == o # << >> /\ o[1] # 0
TruthyStr(o) == o # << >> /\ o[1] # ""

\* a || b on optional numbers / strings
OrNum(o, d) == IF TruthyNum(o) THEN o[1] ELSE d
OrStr(o, d) == IF TruthyStr(o) THEN o[1] ELSE d

\* a parse that falls back to a built-in mapping instead of undefined
ParseYearlySheetIds_Default(e) ==
    IF e.kind = "json" THEN <<e.map>>
    ELSE << [y \in Years |-> <<SheetIdOf(y)>>] >>

\* JSON.parse(process.env.YEARLY_SHEET_IDS) inside try/catch: the parsed
\* object, or undefined when the variable is unset or not JSON
ParseYearlySheetIds(e) == IF e.kind = "json" THEN <<e.map>> ELSE << >>

\* --------------------------------------------- getWaitTimeData, pure part
\* liveDataMap.get(id) after data.liveData.forEach(item => map.set(...)):
\* the last item carrying that entityId, or undefined
RECURSIVE MapGet(_, _)
MapGet(liveData, id) ==
    IF liveData = << >> THEN << >>
    ELSE LET last == liveData[Len(liveData)]
         IN  IF last.entityId = id THEN <<last>>
             ELSE MapGet(SubSeq(liveData, 1, Len(liveData) - 1), id)

StatusRecord(facility, wait, status) ==
    [FacilityID |-> facility.id, Name |-> facility.name,
     WaitTimeMinutes |-> wait, WaitTimeStatus |-> status]

\* the loop body without its `else if (entry && entry.status)` branch
LiveStatusOf_NoTopLevelStatus(facility, liveData) ==
    LET entry == MapGet(liveData, facility.id)
    IN  IF entry # << >> /\ entry[1].STANDBY # << >>
        THEN StatusRecord(facility,
                          OrNum(entry[1].STANDBY[1].waitTime, 0),
                          OrStr(entry[1].STANDBY[1].status, OPERATING))
        ELSE StatusRecord(facility, 0, UNKNOWN)

\* one iteration of the loop over GRAND_FLORIDIAN_FACILITIES in part_000
LiveStatusOf(facility, liveData) ==
    LET entry == MapGet(liveData, facility.id)
    IN  IF entry # << >> /\ entry[1].STANDBY # << >>
        THEN StatusRecord(facility,
                          OrNum(entry[1].STANDBY[1].waitTime, 0),
                          OrStr(entry[1].STANDBY[1].status, OPERATING))
        ELSE IF entry # << >> /\ TruthyStr(entry[1].status)
        THEN StatusRecord(facility, 0, entry[1].status[1])
        ELSE StatusRecord(facility, 0, UNKNOWN)

\* a fallback that returns no records at all
UniformResults_Empty(status) == << >>

\* the same record for every facility (catch block; API_OK loop of part_001)
UniformResults(status) ==
    [i \in 1..NumFacilities |->
        StatusRecord(GRAND_FLORIDIAN_FACILITIES[i], 0, status)]

\* does the try block of part_000 throw on this response?
LiveFetchThrows(resp) ==
    resp.kind \in {"transport", "non_ok", "bad_json", "null_data",
                   "not_array", "null_item"}

\* part_000 without the catch block's fallback: a failed call is treated
\* like an empty list
LiveResults_NoFallback(resp) ==
    [i \in 1..NumFacilities |->
        LiveStatusOf(GRAND_FLORIDIAN_FACILITIES[i], resp.liveData)]

\* the array getWaitTimeData of part_000 resolves to
LiveResults(resp) ==
    IF LiveFetchThrows(resp) THEN UniformResults(API_ERROR)
    ELSE [i \in 1..NumFacilities |->
            LiveStatusOf(GRAND_FLORIDIAN_FACILITIES[i], resp.liveData)]

\* does the try block of part_001 throw on this response?
EndpointFetchThrows(resp) == resp.kind \in {"transport", "non_ok"}

\* the array getWaitTimeData of part_001 resolves to: the body is never read
EndpointResults(resp) ==
    IF EndpointFetchThrows(resp) THEN UniformResults(API_ERROR)
    ELSE UniformResults(API_OK)

\* what one loop iteration of part_002 / disney_reporter.js adds to results
LibraryStep(facility, outcome) ==
    CASE outcome = "throws" -> << StatusRecord(facility, 0, LIB_ERROR) >>
      [] outcome = "absent" -> << >>
      [] outcome = "bare"   -> << StatusRecord(facility, 0, UNKNOWN) >>
      [] outcome = "timed"  -> << StatusRecord(facility, 12, "Operating") >>

\* ----------------------------------------------------- logDataToSheet map
\* facilitiesData.map(...): the row object handed to db.insert
SheetRow(data, now) ==
    [DateTime |-> now, FacilityID |-> data.FacilityID, Name |-> data.Name,
     WaitTimeMinutes |-> data.WaitTimeMinutes,
     WaitTimeStatus |-> data.WaitTimeStatus,
     ReservationAvailability |-> RESERVATION_NOTE]

\* the rows mapped in reverse order
DataToInsert_Reversed(facilitiesData, now) ==
    [i \in 1..Len(facilitiesData) |->
        SheetRow(facilitiesData[Len(facilitiesData) + 1 - i], now)]

DataToInsert(facilitiesData, now) ==
    [i \in 1..Len(facilitiesData) |-> SheetRow(facilitiesData[i], now)]

\* the rows an earlier, complete run left in the tab (upstream had no list)
EarlierRows == DataToInsert(UniformResults(UNKNOWN), "earlier run")

\* the clock value new Date().toLocaleString() yields during this run
RunTime == "this run"

\* ----------------------------------------------------------------- state
VARIABLES
    script,               \* which revision of the script the process runs
    env,                  \* process.env.YEARLY_SHEET_IDS
    year,                 \* new Date().getFullYear().toString()
    credsFile,            \* google-credentials.json: "valid" or "missing"
    existing,             \* rows the sheets held when the process started
    tabExists,            \* did the Disney_Dining tab exist at that time?
    YEARLY_SHEET_IDS_MAP, \* module-level `let`, << >> while undefined
    GOOGLE_CREDENTIALS,   \* module-level `let` of part_001
    CURRENT_SHEET_ID,     \* module-level `let`, << >> while null
    pc,                   \* where the process is
    httpCalls,            \* upstream requests issued so far
    response,             \* what the upstream requests settled with, in order
    idx,                  \* loop position of the per-facility revisions
    results,              \* the array getWaitTimeData builds / resolves to
    thrown,               \* the function whose exception reached runReport
    db,                   \* the GoogleSheetDB instance, << >> while none
    dataToInsert,         \* rows logDataToSheet mapped from its argument
    ins,                  \* position of the insert loop
    ledger,               \* rows of every sheet's Disney_Dining tab
    ledgerOps,            \* calls made on the google-sheet-db client
    console,              \* lines written by console.log/warn/error
    runEnd,               \* how runReport ended, "" while it runs
    exitCode              \* process exit status, << >> while running

vars == << script, env, year, credsFile, existing, tabExists, YEARLY_SHEET_IDS_MAP,
           GOOGLE_CREDENTIALS, CURRENT_SHEET_ID, pc, httpCalls, response,
           idx, results, thrown, db, dataToInsert, ins, ledger, ledgerOps,
           console, runEnd, exitCode >>

configVars == << script, env, year, credsFile, existing, tabExists >>
fetchVars  == << httpCalls, response, idx, results, thrown >>
writeVars  == << db, dataToInsert, ins, ledger, ledgerOps >>

Log(tag, arg) == console \cup { <<tag, arg>> }

Init ==
    /\ script \in Scripts
    /\ env \in EnvValues
    /\ year \in Years
    /\ credsFile \in {"valid", "missing"}
    /\ existing \in { << >>, EarlierRows }
    /\ tabExists \in BOOLEAN
    /\ existing # << >> => tabExists
    /\ YEARLY_SHEET_IDS_MAP = << >>
    /\ GOOGLE_CREDENTIALS = << >>
    /\ CURRENT_SHEET_ID = << >>
    /\ pc = "load"
    /\ httpCalls = 0
    /\ response = << >>
    /\ idx = 1
    /\ results = << >>
    /\ thrown = ""
    /\ db = << >>
    /\ dataToInsert = << >>
    /\ ins = 1
    /\ ledger = [s \in SheetIds |-> existing]
    /\ ledgerOps = << >>
    /\ console = {}
    /\ runEnd = ""
    /\ exitCode = << >>

\* ------------------------------------------------------ module top level
\* the statements that run when the file is loaded, before runReport()
LoadModule ==
    /\ pc = "load"
    /\ YEARLY_SHEET_IDS_MAP' = ParseYearlySheetIds(env)
    /\ GOOGLE_CREDENTIALS' =
         IF script = "part_001" /\ credsFile = "valid" THEN <<"credentials">>
         ELSE << >>
    /\ console' = console
         \cup (IF env.kind = "undefined" THEN { <<"env_missing", "">> } ELSE {})
         \cup (IF env.kind # "json" THEN { <<"env_parse_failed", "">> } ELSE {})
         \cup (IF script = "part_001" /\ credsFile # "valid"
               THEN { <<"creds_load_failed", "">> } ELSE {})
    /\ pc' = "runReport"
    /\ UNCHANGED << configVars, CURRENT_SHEET_ID, fetchVars, writeVars,
                    runEnd, exitCode >>

\* --------------------------------------------------------------- runReport
\* is the configuration check at the top of runReport failing?
ConfigMissing ==
    \/ YEARLY_SHEET_IDS_MAP = << >>
    \/ script = "part_001" /\ GOOGLE_CREDENTIALS = << >>

\* the lookup done with a year other than the current one
YearEntry_OtherYear ==
    YEARLY_SHEET_IDS_MAP[1][CHOOSE y \in Years : y # year]

\* YEARLY_SHEET_IDS_MAP[currentYear]
YearEntry == YEARLY_SHEET_IDS_MAP[1][year]

\* runReport up to the call of getWaitTimeData
runReport ==
    /\ pc = "runReport"
    /\ IF ConfigMissing
       THEN /\ console' = Log("exit_config", "")
            /\ runEnd' = "config"
            /\ pc' = "end"
            /\ UNCHANGED CURRENT_SHEET_ID
       ELSE IF ~TruthyStr(YearEntry)
       THEN /\ console' = Log("no_sheet_id", year)
            /\ runEnd' = "noYear"
            /\ pc' = "end"
            /\ UNCHANGED CURRENT_SHEET_ID
       ELSE /\ CURRENT_SHEET_ID' = YearEntry
            /\ console' = Log("starting", year)
            /\ pc' = "getWaitTimeData"
            /\ UNCHANGED runEnd
    /\ UNCHANGED << configVars, YEARLY_SHEET_IDS_MAP, GOOGLE_CREDENTIALS,
                    fetchVars, writeVars, exitCode >>

\* --------------------------------------------------------- getWaitTimeData
\* responses that differ for part_001, which never reads the body
EndpointResponses == { r \in Responses : r.liveData = << >> }

\* runReport's catch block (part_000, part_001, disney_reporter.js); in
\* part_002 runReport has no try, the rejection is unhandled
Rejected(fn) ==
    /\ thrown' = fn
    /\ pc' = "end"
    /\ IF script = "part_002"
       THEN /\ runEnd' = "unhandled"
            /\ UNCHANGED console
       ELSE /\ runEnd' = "caught"
            /\ console' = Log("critical_failure", fn)

\* getWaitTimeData called without `await`: runReport goes on to
\* logDataToSheet while the request is still in flight
getWaitTimeData_NotAwaited ==
    /\ pc = "getWaitTimeData"
    /\ httpCalls' = httpCalls + 1
    /\ console' = Log("fetching", "")
    /\ pc' = "logDataToSheet"
    /\ UNCHANGED << configVars, YEARLY_SHEET_IDS_MAP, GOOGLE_CREDENTIALS,
                    CURRENT_SHEET_ID, response, idx, results, thrown,
                    writeVars, runEnd, exitCode >>

\* getWaitTimeData from its call to its first await: the fetch revisions
\* issue the request, the library revisions construct the park object
getWaitTimeData ==
    /\ pc = "getWaitTimeData"
    /\ IF script \in FetchScripts
       THEN /\ httpCalls' = httpCalls + 1
            /\ console' = Log("fetching", "")
            /\ pc' = "await_fetch"
            /\ UNCHANGED << thrown, runEnd >>
       ELSE \E classUsable \in BOOLEAN :
              IF classUsable
              THEN /\ console' = Log("fetching", "")
                   /\ pc' = "loop"
                   /\ UNCHANGED << httpCalls, thrown, runEnd >>
              ELSE /\ Rejected("getWaitTimeData")
                   /\ UNCHANGED httpCalls
    /\ UNCHANGED << configVars, YEARLY_SHEET_IDS_MAP, GOOGLE_CREDENTIALS,
                    CURRENT_SHEET_ID, response, idx, results, writeVars,
                    exitCode >>

\* the fetch settles and the rest of getWaitTimeData runs (part_000, part_001)
FetchSettles ==
    /\ pc = "await_fetch"
    /\ \E resp \in (IF script = "part_000" THEN Responses ELSE EndpointResponses) :
         /\ response' = <<resp>>
         /\ results' = IF script = "part_000" THEN LiveResults(resp)
                       ELSE EndpointResults(resp)
         /\ console' = IF (script = "part_000" /\ LiveFetchThrows(resp))
                          \/ (script = "part_001" /\ EndpointFetchThrows(resp))
                       THEN Log("api_fetch_error", "") ELSE console
    /\ pc' = "logDataToSheet"
    /\ UNCHANGED << configVars, YEARLY_SHEET_IDS_MAP, GOOGLE_CREDENTIALS,
                    CURRENT_SHEET_ID, httpCalls, idx, thrown, writeVars,
                    runEnd, exitCode >>

\* one iteration of the facility loop of part_002 / disney_reporter.js:
\* await WDW.GetDestinationData(), find the facility, push or skip
GetDestinationData ==
    /\ pc = "loop"
    /\ idx <= NumFacilities
    /\ \E outcome \in LibraryOutcomes :
         LET facility == GRAND_FLORIDIAN_FACILITIES[idx]
         IN  /\ response' = Append(response, [kind |-> outcome, liveData |-> << >>])
             /\ results' = results \o LibraryStep(facility, outcome)
             /\ console' =
                  IF outcome = "throws" THEN Log("facility_error", facility.name)
                  ELSE IF outcome = "absent" THEN Log("facility_not_found", facility.name)
                  ELSE console
    /\ httpCalls' = httpCalls + 1
    /\ idx' = idx + 1
    /\ pc' = IF idx = NumFacilities THEN "logDataToSheet" ELSE "loop"
    /\ UNCHANGED << configVars, YEARLY_SHEET_IDS_MAP, GOOGLE_CREDENTIALS,
                    CURRENT_SHEET_ID, thrown, writeVars, runEnd, exitCode >>

\* ---------------------------------------------------------- logDataToSheet
\* getSheetInstance: can the script even try to construct the client?
\* (part_001 uses the credentials loaded at module level, the others
\* require() the file inside the try block)
CanConstruct ==
    /\ CURRENT_SHEET_ID # << >>
    /\ IF script = "part_001" THEN GOOGLE_CREDENTIALS # << >>
       ELSE credsFile = "valid"

\* logDataToSheet from its call up to the first db.insert: getSheetInstance,
\* the early return on a null instance, the map to rows
logDataToSheet ==
    /\ pc = "logDataToSheet"
    /\ \E ctorOk \in BOOLEAN :
         /\ ledgerOps' = IF CanConstruct
                         THEN Append(ledgerOps, [op |-> "new", ok |-> ctorOk])
                         ELSE ledgerOps
         /\ IF CanConstruct /\ ctorOk
            THEN /\ db' = << [sheetId |-> CURRENT_SHEET_ID[1],
                              sheetName |-> FIXED_SHEET_TAB_NAME] >>
                 /\ dataToInsert' = DataToInsert(results, RunTime)
                 /\ IF Len(results) = 0
                    THEN /\ console' = console \cup { <<"logging_rows", "">>,
                                                      <<"update_successful", "">> }
                         /\ pc' = "after_log"
                    ELSE /\ console' = Log("logging_rows", "")
                         /\ pc' = "insert"
            ELSE /\ console' = console
                      \cup (IF script = "part_001"
                            THEN { <<"logging_aborted", "">> } ELSE {})
                      \cup (IF CURRENT_SHEET_ID # << >>
                               /\ (script # "part_001" \/ GOOGLE_CREDENTIALS # << >>)
                            THEN { <<"connect_error", "">> } ELSE {})
                 /\ pc' = "after_log"
                 /\ UNCHANGED << db, dataToInsert >>
    /\ UNCHANGED << configVars, YEARLY_SHEET_IDS_MAP, GOOGLE_CREDENTIALS,
                    CURRENT_SHEET_ID, fetchVars, ins, ledger, runEnd, exitCode >>

\* an insert loop with the try/catch inside the loop body: a rejected
\* insert is logged and the loop goes on with the next row
Insert_SkipAndContinue ==
    /\ pc = "insert"
    /\ \E ok \in BOOLEAN :
         /\ ledgerOps' = Append(ledgerOps, [op |-> "insert", ok |-> ok])
         /\ ledger' = IF ok
                      THEN [ledger EXCEPT
                              ![db[1].sheetId] = Append(@, dataToInsert[ins])]
                      ELSE ledger
         /\ ins' = ins + 1
         /\ console' = console
              \cup (IF ok THEN {} ELSE { <<"write_error", "">> })
              \cup (IF ins = Len(dataToInsert)
                    THEN { <<"update_successful", "">> } ELSE {})
         /\ pc' = IF ins = Len(dataToInsert) THEN "after_log" ELSE "insert"
    /\ UNCHANGED << configVars, YEARLY_SHEET_IDS_MAP, GOOGLE_CREDENTIALS,
                    CURRENT_SHEET_ID, httpCalls, response, idx, results,
                    thrown, db, dataToInsert, runEnd, exitCode >>

\* one `await db.insert(row)` of the loop settles: the row is appended to
\* the tab, or the call rejects and leaves the sheet as it was
Insert ==
    /\ pc = "insert"
    /\ \E ok \in BOOLEAN :
         /\ ledgerOps' = Append(ledgerOps, [op |-> "insert", ok |-> ok])
         /\ IF ok
            THEN /\ ledger' = [ledger EXCEPT
                                 ![db[1].sheetId] = Append(@, dataToInsert[ins])]
                 /\ ins' = ins + 1
                 /\ IF ins = Len(dataToInsert)
                    THEN /\ console' = Log("update_successful", "")
                         /\ pc' = "after_log"
                    ELSE /\ pc' = "insert"
                         /\ UNCHANGED console
                 /\ UNCHANGED << thrown, runEnd >>
            ELSE /\ UNCHANGED << ledger, ins >>
                 /\ IF script = "part_001"
                    THEN /\ console' = Log("write_error", "")
                         /\ pc' = "after_log"
                         /\ UNCHANGED << thrown, runEnd >>
                    ELSE Rejected("logDataToSheet")
    /\ UNCHANGED << configVars, YEARLY_SHEET_IDS_MAP, GOOGLE_CREDENTIALS,
                    CURRENT_SHEET_ID, httpCalls, response, idx, results,
                    db, dataToInsert, exitCode >>

\* logDataToSheet returned normally: runReport runs to its end
RunReportReturns ==
    /\ pc = "after_log"
    /\ console' = IF script \in LibraryScripts
                  THEN Log("report_complete", "") ELSE console
    /\ runEnd' = "returned"
    /\ pc' = "end"
    /\ UNCHANGED << configVars, YEARLY_SHEET_IDS_MAP, GOOGLE_CREDENTIALS,
                    CURRENT_SHEET_ID, fetchVars, writeVars, exitCode >>

\* ------------------------------------------------------------ process exit
\* nothing is left to run: Node exits with 0, or, after an unhandled
\* rejection, with 1 (Node 15 and later) or a warning and 0 (earlier)
ExitCodes(end) == IF end = "unhandled" THEN { <<0>>, <<1>> } ELSE { <<0>> }

ProcessExit ==
    /\ pc = "end"
    /\ exitCode' \in ExitCodes(runEnd)
    /\ pc' = "exited"
    /\ UNCHANGED << configVars, YEARLY_SHEET_IDS_MAP, GOOGLE_CREDENTIALS,
                    CURRENT_SHEET_ID, fetchVars, writeVars, console, runEnd >>

Next ==
    \/ LoadModule
    \/ runReport
    \/ getWaitTimeData
    \/ FetchSettles
    \/ GetDestinationData
    \/ logDataToSheet
    \/ Insert
    \/ RunReportReturns
    \/ ProcessExit

Spec == Init /\ [][Next]_vars

\* =================================================================== claims
\* --------------------------------------------------------------- vocabulary
\* runReport is over
RunOver == pc \in {"end", "exited"}

\* getWaitTimeData has returned its array to runReport
FetchReturned ==
    \/ pc \in {"logDataToSheet", "insert", "after_log"}
    \/ RunOver /\ runEnd \in {"returned", "caught", "unhandled"}
               /\ thrown # "getWaitTimeData"

\* an upstream request that failed: fetch rejected, response not ok, or the
\* library call rejected
UpstreamFailed(r) == r.kind \in {"transport", "non_ok", "throws"}

AllRequestsFailed ==
    /\ response # << >>
    /\ \A k \in 1..Len(response) : UpstreamFailed(response[k])

\* the status string the running revision writes for a failed upstream call
\* (the spec's SOURCE_ERROR)
SourceErrorStatus == IF script \in FetchScripts THEN API_ERROR ELSE LIB_ERROR

\* the upstream answered but has nothing for the i-th catalog facility
Omitted(i) ==
    IF script \in FetchScripts
    THEN /\ response # << >>
         /\ response[1].kind = "ok"
         /\ MapGet(response[1].liveData, GRAND_FLORIDIAN_FACILITIES[i].id) = << >>
    ELSE /\ Len(response) >= i
         /\ response[i].kind = "absent"

\* C1: whatever the upstream does, getWaitTimeData returns exactly one status
\* per catalog facility, the i-th carrying the id and name of the i-th entry
\* (stated for the revisions the claim names: part_000, disney_reporter.js)
C1_OneStatusPerFacility ==
    (script \in {"part_000", "disney_reporter"} /\ FetchReturned) =>
        /\ Len(results) = NumFacilities
        /\ \A i \in 1..Len(results) :
             i <= NumFacilities =>
               /\ results[i].FacilityID = GRAND_FLORIDIAN_FACILITIES[i].id
               /\ results[i].Name = GRAND_FLORIDIAN_FACILITIES[i].name

\* C2: if the upstream call fails (every request of the run fails), every
\* status getWaitTimeData returns is the source-error sentinel with wait 0
C2_UpstreamFailureIsSourceError ==
    (FetchReturned /\ AllRequestsFailed) =>
        /\ results # << >>
        /\ \A i \in 1..Len(results) :
             /\ results[i].WaitTimeStatus = SourceErrorStatus
             /\ results[i].WaitTimeMinutes = 0

C2_Witness ==
    /\ script = "part_000"
    /\ pc = "logDataToSheet"
    /\ response = << [kind |-> "non_ok", liveData |-> << >>] >>
    /\ Len(results) = NumFacilities
    /\ results[NumFacilities].WaitTimeStatus = API_ERROR

\* C3: when the upstream answers without an entry for a catalog facility,
\* that facility still has a status, UNKNOWN with wait 0
\* (stated for the revisions the claim names: part_000, part_002)
C3_OmittedFacilityIsUnknown ==
    (script \in {"part_000", "part_002"} /\ FetchReturned) =>
        \A i \in 1..NumFacilities :
            Omitted(i) =>
              \E j \in 1..Len(results) :
                 /\ results[j].FacilityID = GRAND_FLORIDIAN_FACILITIES[i].id
                 /\ results[j].WaitTimeStatus = UNKNOWN
                 /\ results[j].WaitTimeMinutes = 0

\* runReport went past its configuration check and looked the year up
YearLookedUp == pc \notin {"load", "runReport"} /\ runEnd # "config"

\* the target the Writer connected to is the given sheet, fixed tab
ConnectedTo(id) ==
    db # << >> => db[1] = [sheetId |-> id, sheetName |-> "Disney_Dining"]

NoEntryForYear ==
    /\ runEnd = "noYear"
    /\ <<"no_sheet_id", year>> \in console
    /\ CURRENT_SHEET_ID = << >>
    /\ db = << >>

\* C4 as stated: an entry for the current year resolves to that entry and the
\* fixed tab; no entry fails with NoEntryForYear naming the year, no id set
C4_ResolveByEntry ==
    YearLookedUp =>
        IF env.map[year] # << >>
        THEN /\ CURRENT_SHEET_ID = env.map[year]
             /\ runEnd # "noYear"
             /\ ConnectedTo(env.map[year][1])
        ELSE NoEntryForYear

\* C4 amended: a non-empty entry for the current year resolves to that entry
\* and the fixed tab; a missing or empty entry fails with NoEntryForYear
\* naming the year, no id set
C4_ResolveByNonEmptyEntry ==
    YearLookedUp =>
        IF env.map[year] # << >> /\ env.map[year][1] # ""
        THEN /\ CURRENT_SHEET_ID = env.map[year]
             /\ runEnd # "noYear"
             /\ ConnectedTo(env.map[year][1])
        ELSE NoEntryForYear

C4_Witness ==
    /\ year = "2026"
    /\ env.map = [y \in Years |-> <<SheetIdOf(y)>>]
    /\ pc = "insert"
    /\ CURRENT_SHEET_ID = <<"ID2">>
    /\ db # << >>

\* logDataToSheet ran its insert loop to the end
UpdateSuccessful == <<"update_successful", "">> \in console

\* C5: rows already in a sheet are never changed, and a successful
\* logDataToSheet leaves exactly one new row per status after them, in input
\* order, in the sheet of the current year only
C5_AppendOnly ==
    /\ \A s \in SheetIds :
         /\ Len(ledger[s]) >= Len(existing)
         /\ SubSeq(ledger[s], 1, Len(existing)) = existing
    /\ UpdateSuccessful =>
         /\ Len(ledger[CURRENT_SHEET_ID[1]]) = Len(existing) + Len(results)
         /\ \A j \in 1..Len(results) :
              LET row == ledger[CURRENT_SHEET_ID[1]][Len(existing) + j]
              IN  /\ row.FacilityID = results[j].FacilityID
                  /\ row.Name = results[j].Name
                  /\ row.WaitTimeMinutes = results[j].WaitTimeMinutes
                  /\ row.WaitTimeStatus = results[j].WaitTimeStatus
                  /\ row.ReservationAvailability = RESERVATION_NOTE
         /\ \A s \in SheetIds \ {CURRENT_SHEET_ID[1]} : ledger[s] = existing

C5_Witness ==
    /\ UpdateSuccessful
    /\ script = "part_000"
    /\ existing = EarlierRows
    /\ Len(results) = NumFacilities
    /\ Len(ledger[CURRENT_SHEET_ID[1]]) = 2 * NumFacilities

\* C6: with YEARLY_SHEET_IDS missing or malformed the run ends at the
\* configuration check: no upstream request, no call on the sheet client
C6_BadMappingNoNetwork ==
    env.kind # "json" =>
        /\ httpCalls = 0
        /\ response = << >>
        /\ ledgerOps = << >>
        /\ RunOver => runEnd = "config"

C6_Witness ==
    /\ env.kind = "malformed"
    /\ pc = "exited"
    /\ runEnd = "config"
    /\ httpCalls = 0

\* the run reached success with all rows written
AllRowsWritten == runEnd = "returned" /\ UpdateSuccessful

\* C7: the exit status is 0 exactly when all rows were written
\* (stated for the revisions the claim names: part_000, part_001)
C7_ExitStatus ==
    (script \in {"part_000", "part_001"} /\ pc = "exited") =>
        (exitCode = <<0>> <=> AllRowsWritten)

\* logDataToSheet was entered and got no client instance
ConnectionFailed ==
    /\ db = << >>
    /\ pc = "after_log" \/ (RunOver /\ runEnd = "returned")

InsertFailed ==
    \E k \in 1..Len(ledgerOps) : ledgerOps[k].op = "insert" /\ ~ledgerOps[k].ok

\* runReport ended on one of its failure paths
RunFailed == runEnd \in {"config", "noYear", "caught", "unhandled"}

\* C8: after a Writer failure the run ends FAILED, reports no success, and
\* issues no insert after the failed one
\* (stated for the revisions the claim names: part_000, part_001)
C8_WriterFailureFailsRun ==
    (script \in {"part_000", "part_001"} /\ RunOver
       /\ (ConnectionFailed \/ InsertFailed)) =>
        /\ RunFailed
        /\ ~UpdateSuccessful
        /\ <<"report_complete", "">> \notin console
        /\ \A k \in 1..Len(ledgerOps) :
             (ledgerOps[k].op = "insert" /\ ~ledgerOps[k].ok) => k = Len(ledgerOps)

\* C9: when the tab did not exist, the Writer creates it and writes the
\* header before it inserts any row
C9_HeaderBeforeRows ==
    \A k \in 1..Len(ledgerOps) :
        (ledgerOps[k].op = "insert" /\ ~tabExists) =>
            \E i, j \in 1..Len(ledgerOps) :
                /\ i < j
                /\ j < k
                /\ ledgerOps[i].op = "create_tab"
                /\ ledgerOps[j].op = "set_header"

\* C10: getWaitTimeData never throws to runReport
\* (stated for the revisions the claim names: part_000, disney_reporter.js)
C10_AdapterNeverThrows ==
    script \in {"part_000", "disney_reporter"} => thrown # "getWaitTimeData"

\* the orchestrator stage the process is in, read off its position
Stage ==
    IF runEnd = "returned" THEN "DONE"
    ELSE IF runEnd # "" THEN "FAILED"
    ELSE IF pc \in {"load", "runReport"} THEN "START"
    ELSE IF pc \in {"getWaitTimeData", "await_fetch", "loop"} THEN "TARGET_RESOLVED"
    ELSE IF pc \in {"logDataToSheet", "insert"} THEN "STATUSES_FETCHED"
    ELSE "ROWS_WRITTEN"

StageRank(st) ==
    CASE st = "START" -> 0
      [] st = "TARGET_RESOLVED" -> 1
      [] st = "STATUSES_FETCHED" -> 2
      [] st = "ROWS_WRITTEN" -> 3
      [] st = "DONE" -> 4
      [] st = "FAILED" -> 5

\* every upstream request of the run has settled
FetchSettled ==
    IF script \in FetchScripts THEN Len(response) = 1
    ELSE Len(response) = NumFacilities

\* C11: resolve target, then fetch, then write: no upstream request before
\* the sheet id is set, no call on the sheet client before every upstream
\* request has settled and getWaitTimeData has returned, and the stage only
\* ever moves to the next one or to FAILED
C11_StagesInOrder ==
    /\ [](httpCalls > 0 => CURRENT_SHEET_ID # << >>)
    /\ [](ledgerOps # << >> => (FetchSettled /\ FetchReturned))
    /\ [](ledger # [s \in SheetIds |-> existing] => (FetchSettled /\ FetchReturned))
    /\ [][Stage' # Stage =>
            \/ Stage' = "FAILED"
            \/ StageRank(Stage') = StageRank(Stage) + 1]_vars

C11_Witness ==
    /\ script = "part_000"
    /\ pc = "insert"
    /\ httpCalls = 1
    /\ Len(response) = 1
    /\ Len(ledgerOps) = 3
    /\ Len(ledger[CURRENT_SHEET_ID[1]]) = Len(existing) + 2

\* C12: with the credentials file absent the run ends FAILED before any
\* network call: no upstream request is issued
\* (stated for the revisions the claim names: part_000, part_001)
C12_NoCredentialsNoNetwork ==
    (script \in {"part_000", "part_001"} /\ credsFile = "missing") =>
        /\ httpCalls = 0
        /\ RunOver => RunFailed

\* responses that mean the upstream was unreachable, answered with a
\* non-success status, or sent a body of the wrong shape
BadKinds == {"transport", "non_ok", "bad_json", "no_list", "null_data",
             "not_array", "null_item", "throws"}

UpstreamBad ==
    /\ FetchSettled
    /\ \A k \in 1..Len(response) : response[k].kind \in BadKinds

\* C13: when the target is resolved and the upstream fails, the run goes on
\* to the write stage, logDataToSheet gets one record per catalog facility,
\* and the run does not fail unless the Writer itself throws
C13_UpstreamFailureStillWrites ==
    UpstreamBad =>
        /\ pc \in {"logDataToSheet", "insert", "after_log", "end", "exited"}
        /\ Len(results) = NumFacilities
        /\ \A i \in 1..Len(results) :
             i <= NumFacilities =>
               results[i].FacilityID = GRAND_FLORIDIAN_FACILITIES[i].id
        /\ db # << >> => Len(dataToInsert) = NumFacilities
        /\ runEnd \notin {"config", "noYear"}
        /\ runEnd \in {"caught", "unhandled"} => thrown = "logDataToSheet"

C13_Witness ==
    /\ script = "part_000"
    /\ response = << [kind |-> "bad_json", liveData |-> << >>] >>
    /\ pc = "insert"
    /\ Len(dataToInsert) = NumFacilities
    /\ dataToInsert[1].WaitTimeStatus = API_ERROR

\* the live entry of the i-th catalog facility in the fetched payload of
\* part_000, << >> when the payload has none
LiveEntryOf(i) ==
    IF script = "part_000" /\ response # << >> /\ response[1].kind = "ok"
    THEN MapGet(response[1].liveData, GRAND_FLORIDIAN_FACILITIES[i].id)
    ELSE << >>

\* C14: for an entry with a standby sub-record the wait is the sub-record's
\* wait value, a missing or negative one counting as 0, so never negative;
\* the status is the sub-record's status if present, else OPERATING
C14_StandbyWaitAndStatus ==
    FetchReturned =>
        \A i \in 1..NumFacilities :
            (LiveEntryOf(i) # << >> /\ LiveEntryOf(i)[1].STANDBY # << >>) =>
                LET standby == LiveEntryOf(i)[1].STANDBY[1]
                IN  /\ results[i].WaitTimeMinutes >= 0
                    /\ results[i].WaitTimeMinutes =
                         (IF standby.waitTime = << >> \/ standby.waitTime[1] < 0
                          THEN 0 ELSE standby.waitTime[1])
                    /\ results[i].WaitTimeStatus =
                         (IF standby.status = << >> THEN "OPERATING"
                          ELSE standby.status[1])

\* C15: for an entry without a standby sub-record but with a top-level
\* status the result carries that status and wait 0
C15_TopLevelStatusOnly ==
    FetchReturned =>
        \A i \in 1..NumFacilities :
            (/\ LiveEntryOf(i) # << >>
             /\ LiveEntryOf(i)[1].STANDBY = << >>
             /\ LiveEntryOf(i)[1].status # << >>) =>
                /\ results[i].FacilityID = GRAND_FLORIDIAN_FACILITIES[i].id
                /\ results[i].WaitTimeStatus = LiveEntryOf(i)[1].status[1]
                /\ results[i].WaitTimeMinutes = 0

C15_Witness ==
    /\ script = "part_000"
    /\ pc = "logDataToSheet"
    /\ response = << [kind |-> "ok",
                      liveData |-> << [entityId |-> "16975815",
                                       STANDBY |-> << >>,
                                       status |-> <<"CLOSED">>] >>] >>
    /\ results[5].WaitTimeStatus = "CLOSED"
    /\ results[5].WaitTimeMinutes = 0

\* C16: the rows a run has inserted so far are a prefix of its input rows,
\* in input order, after the rows the tab held before; a rejected insert is
\* the last call the run makes on the sheet
C16_PrefixAndAbort ==
    /\ db = << >> => ledger = [s \in SheetIds |-> existing]
    /\ db # << >> =>
         /\ \E k \in 0..Len(dataToInsert) :
              ledger[db[1].sheetId] = existing \o SubSeq(dataToInsert, 1, k)
         /\ \A s \in SheetIds \ {db[1].sheetId} : ledger[s] = existing
    /\ \A k \in 1..Len(ledgerOps) :
         (ledgerOps[k].op = "insert" /\ ~ledgerOps[k].ok) => k = Len(ledgerOps)

C16_Witness ==
    /\ RunOver
    /\ db # << >>
    /\ Len(dataToInsert) = NumFacilities
    /\ Len(ledgerOps) = 4
    /\ ~ledgerOps[4].ok
    /\ ledger[db[1].sheetId] = existing \o SubSeq(dataToInsert, 1, 2)

\* C17: a run issues at most one upstream request
\* (stated for the revisions the claim names: part_000, disney_reporter.js)
C17_SingleRequest ==
    script \in {"part_000", "disney_reporter"} =>
        /\ httpCalls <= 1
        /\ Len(response) <= 1

====
